---------------------------- MODULE Spec2Model ----------------------------
(***************************************************************************)
(* A model of the Hachi CHIP-8 interpreter core (src/src/lib.rs).          *)
(*                                                                         *)
(* The state is the Hachi struct, field by field, plus `panic` (the Rust   *)
(* panic that ended the process, "none" while it runs) and what the host   *)
(* has done so far: `loads`, `ticks`, and in `last` the host's record of   *)
(* the ticks since construction or the last reset (the word the last tick  *)
(* fetched and its address, the display a draw found, the calls not yet    *)
(* returned from).  Every public method of Hachi is one action.            *)
(* A tick is fetch followed by execute; execute is the match over the four *)
(* nibbles of the fetched word, arm by arm.                                *)
(***************************************************************************)
EXTENDS Integers, Naturals, Sequences, FiniteSets, TLC

VARIABLES
    program_counter,  \* u16
    ram,              \* [u8; RAM_SIZE]
    display,          \* [bool; DISPLAY_WIDTH * DISPLAY_HEIGHT]
    v_registers,      \* [u8; NUM_REGISTERS]
    i_register,       \* u16
    stack_pointer,    \* u16
    stack,            \* [u16; STACK_SIZE]
    keys,             \* [bool; NUM_KEYS]
    delay_timer,      \* u8
    sound_timer,      \* u8
    panic,            \* "none", or the kind of panic that ended the process
    last,             \* record of the ticks: [tick, op, at, shown, calls]
    loads,            \* number of load calls so far
    ticks             \* number of tick calls so far

vars == <<program_counter, ram, display, v_registers, i_register,
          stack_pointer, stack, keys, delay_timer, sound_timer,
          panic, last, loads, ticks>>

----------------------------------------------------------------------------
(* Program constants *)

DISPLAY_WIDTH == 64
DISPLAY_HEIGHT == 32
RAM_SIZE == 4096
NUM_REGISTERS == 16
STACK_SIZE == 16
NUM_KEYS == 16
START_ADDRESS == 512
FONTSET_SIZE == 80
U8 == 256
U16 == 65536

FONTSET ==
    << \hF0, \h90, \h90, \h90, \hF0,
       \h20, \h60, \h20, \h20, \h70,
       \hF0, \h10, \hF0, \h80, \hF0,
       \hF0, \h10, \hF0, \h10, \hF0,
       \h90, \h90, \hF0, \h10, \h10,
       \hF0, \h80, \hF0, \h10, \hF0,
       \hF0, \h80, \hF0, \h90, \hF0,
       \hF0, \h10, \h20, \h40, \h40,
       \hF0, \h90, \hF0, \h90, \hF0,
       \hF0, \h90, \hF0, \h10, \hF0,
       \hF0, \h90, \hF0, \h90, \h90,
       \hE0, \h90, \hE0, \h90, \hE0,
       \hF0, \h80, \h80, \h80, \hF0,
       \hE0, \h90, \h90, \h90, \hE0,
       \hF0, \h80, \hF0, \h80, \hF0,
       \hF0, \h80, \hF0, \h80, \h80 >>

----------------------------------------------------------------------------
(* Bounds of the model *)

MaxLoads == 1
MaxTicks == 6
\* for the runs that reload, and for those that nest calls 16 deep
MaxReloads == 2
MaxStackTicks == 34

----------------------------------------------------------------------------
(* Bit operations on u8 values *)

Bit(v, k) == (v \div (2 ^ k)) % 2

BitAnd(a, b) ==
    LET f(k) == Bit(a, k) * Bit(b, k) * (2 ^ k)
    IN  f(0) + f(1) + f(2) + f(3) + f(4) + f(5) + f(6) + f(7)

BitOr(a, b) ==
    LET f(k) == (Bit(a, k) + Bit(b, k) - Bit(a, k) * Bit(b, k)) * (2 ^ k)
    IN  f(0) + f(1) + f(2) + f(3) + f(4) + f(5) + f(6) + f(7)

BitXor(a, b) ==
    LET f(k) == ((Bit(a, k) + Bit(b, k)) % 2) * (2 ^ k)
    IN  f(0) + f(1) + f(2) + f(3) + f(4) + f(5) + f(6) + f(7)

----------------------------------------------------------------------------
(* The machine as one record, so that fetch and execute are functions of it *)

Hachi ==
    [ program_counter |-> program_counter,
      ram             |-> ram,
      display         |-> display,
      v_registers     |-> v_registers,
      i_register      |-> i_register,
      stack_pointer   |-> stack_pointer,
      stack           |-> stack,
      keys            |-> keys,
      delay_timer     |-> delay_timer,
      sound_timer     |-> sound_timer,
      panic           |-> panic ]

FontRam == [a \in 0 .. (RAM_SIZE - 1) |->
               IF a < FONTSET_SIZE THEN FONTSET[a + 1] ELSE 0]

ClearDisplay == [c \in 0 .. (DISPLAY_WIDTH * DISPLAY_HEIGHT - 1) |-> FALSE]

new ==
    [ program_counter |-> START_ADDRESS,
      ram             |-> FontRam,
      display         |-> ClearDisplay,
      v_registers     |-> [r \in 0 .. (NUM_REGISTERS - 1) |-> 0],
      i_register      |-> 0,
      stack_pointer   |-> 0,
      stack           |-> [s \in 0 .. (STACK_SIZE - 1) |-> 0],
      keys            |-> [k \in 0 .. (NUM_KEYS - 1) |-> FALSE],
      delay_timer     |-> 0,
      sound_timer     |-> 0,
      panic           |-> "none" ]

Panic(m, kind) == [m EXCEPT !.panic = kind]

----------------------------------------------------------------------------
(* fetch, push, pop *)

fetch(m) ==
    IF m.program_counter >= RAM_SIZE \/ m.program_counter + 1 >= RAM_SIZE
    THEN [m |-> Panic(m, "index out of bounds"), op |-> 0]
    ELSE [m  |-> [m EXCEPT !.program_counter = m.program_counter + 2],
          op |-> m.ram[m.program_counter] * 256 + m.ram[m.program_counter + 1]]

\* mutant of push: a full stack is not noticed, the pointer moves on
push_Unchecked(m, val) ==
    IF m.stack_pointer >= STACK_SIZE
    THEN [m EXCEPT !.stack_pointer = m.stack_pointer + 1]
    ELSE [m EXCEPT !.stack[m.stack_pointer] = val,
                   !.stack_pointer = m.stack_pointer + 1]

push(m, val) ==
    IF m.stack_pointer >= STACK_SIZE
    THEN Panic(m, "index out of bounds")
    ELSE [m EXCEPT !.stack[m.stack_pointer] = val,
                   !.stack_pointer = m.stack_pointer + 1]

\* mutant of pop: the slot is read before the pointer is taken back
pop_ReadsBeforeDecrement(m, overflow_checks) ==
    IF m.stack_pointer = 0
    THEN IF overflow_checks
         THEN Panic(m, "attempt to subtract with overflow")
         ELSE Panic([m EXCEPT !.stack_pointer = U16 - 1], "index out of bounds")
    ELSE IF m.stack_pointer >= STACK_SIZE
         THEN Panic(m, "index out of bounds")
         ELSE [m EXCEPT !.stack_pointer = m.stack_pointer - 1,
                        !.program_counter = m.stack[m.stack_pointer]]

\* pop returns the machine with the popped value already in program_counter
\* (its only caller assigns it there).  With an empty stack the subtraction
\* overflows: a build with overflow checks panics on it, a build without
\* them wraps the pointer to 65535 and panics on the index.
pop(m, overflow_checks) ==
    IF m.stack_pointer = 0
    THEN IF overflow_checks
         THEN Panic(m, "attempt to subtract with overflow")
         ELSE Panic([m EXCEPT !.stack_pointer = U16 - 1], "index out of bounds")
    ELSE [m EXCEPT !.stack_pointer = m.stack_pointer - 1,
                   !.program_counter = m.stack[m.stack_pointer - 1]]

----------------------------------------------------------------------------
(* decode: the arms of the match, in the order of the source *)

Nib == 0 .. 15

Arms ==
    << [name |-> "0000", pat |-> <<{0}, {0}, {0}, {0}>>],
       [name |-> "00E0", pat |-> <<{0}, {0}, {14}, {0}>>],
       [name |-> "00EE", pat |-> <<{0}, {0}, {14}, {14}>>],
       [name |-> "1NNN", pat |-> <<{1}, Nib, Nib, Nib>>],
       [name |-> "2NNN", pat |-> <<{2}, Nib, Nib, Nib>>],
       [name |-> "3XNN", pat |-> <<{3}, Nib, Nib, Nib>>],
       [name |-> "4XNN", pat |-> <<{4}, Nib, Nib, Nib>>],
       [name |-> "5XY0", pat |-> <<{5}, Nib, Nib, {0}>>],
       [name |-> "6XNN", pat |-> <<{6}, Nib, Nib, Nib>>],
       [name |-> "7XNN", pat |-> <<{7}, Nib, Nib, Nib>>],
       [name |-> "8XY0", pat |-> <<{8}, Nib, Nib, {0}>>],
       [name |-> "8XY1", pat |-> <<{8}, Nib, Nib, {1}>>],
       [name |-> "8XY2", pat |-> <<{8}, Nib, Nib, {2}>>],
       [name |-> "8XY3", pat |-> <<{8}, Nib, Nib, {3}>>],
       [name |-> "8XY4", pat |-> <<{8}, Nib, Nib, {4}>>],
       [name |-> "8XY5", pat |-> <<{8}, Nib, Nib, {5}>>],
       [name |-> "8XY6", pat |-> <<{8}, Nib, Nib, {6}>>],
       [name |-> "8XY7", pat |-> <<{8}, Nib, Nib, {7}>>],
       [name |-> "8XYE", pat |-> <<{8}, Nib, Nib, {14}>>],
       [name |-> "9XY0", pat |-> <<{9}, Nib, Nib, {0}>>],
       [name |-> "ANNN", pat |-> <<{10}, Nib, Nib, Nib>>],
       [name |-> "BNNN", pat |-> <<{11}, Nib, Nib, Nib>>],
       [name |-> "CXNN", pat |-> <<{12}, Nib, Nib, Nib>>],
       [name |-> "DXYN", pat |-> <<{13}, Nib, Nib, Nib>>],
       [name |-> "EX9E", pat |-> <<{14}, Nib, {9}, {14}>>],
       [name |-> "EXA1", pat |-> <<{14}, Nib, {10}, {1}>>],
       [name |-> "FX07", pat |-> <<{15}, Nib, {0}, {7}>>],
       [name |-> "FX0A", pat |-> <<{15}, Nib, {0}, {10}>>],
       [name |-> "FX15", pat |-> <<{15}, Nib, {1}, {5}>>],
       [name |-> "FX18", pat |-> <<{15}, Nib, {1}, {8}>>],
       [name |-> "FX1E", pat |-> <<{15}, Nib, {1}, {14}>>],
       [name |-> "FX29", pat |-> <<{15}, Nib, {2}, {9}>>],
       [name |-> "FX33", pat |-> <<{15}, Nib, {3}, {3}>>],
       [name |-> "FX55", pat |-> <<{15}, Nib, {5}, {5}>>],
       [name |-> "FX65", pat |-> <<{15}, Nib, {6}, {5}>>] >>

D1(op) == (op \div 4096) % 16
D2(op) == (op \div 256) % 16
D3(op) == (op \div 16) % 16
D4(op) == op % 16

\* mutant of Matches: the last nibble is not compared
Matches_IgnoringD4(arm, op) ==
    /\ D1(op) \in Arms[arm].pat[1]
    /\ D2(op) \in Arms[arm].pat[2]
    /\ D3(op) \in Arms[arm].pat[3]

Matches(arm, op) ==
    /\ D1(op) \in Arms[arm].pat[1]
    /\ D2(op) \in Arms[arm].pat[2]
    /\ D3(op) \in Arms[arm].pat[3]
    /\ D4(op) \in Arms[arm].pat[4]

Matching(op) == {arm \in 1 .. Len(Arms) : Matches(arm, op)}

\* A match takes the first arm that matches; "unimplemented" is the
\* catch-all arm (_, _, _, _).
Decode(op) ==
    IF Matching(op) = {}
    THEN "unimplemented"
    ELSE Arms[CHOOSE arm \in Matching(op) :
                  \A other \in Matching(op) : arm <= other].name


----------------------------------------------------------------------------
(* execute: the loops of the draw, wait-for-key, store and load arms *)

\* mutant of PixelIndex: the column wraps at the display's height
PixelIndex_WrapAtHeight(x_coord, y_coord, x_line, y_line) ==
    LET x == (x_coord + x_line) % DISPLAY_HEIGHT
        y == (y_coord + y_line) % DISPLAY_HEIGHT
    IN  x + DISPLAY_WIDTH * y

\* the display cell of sprite column x_line, row y_line: both coordinates
\* wrap around the screen
PixelIndex(x_coord, y_coord, x_line, y_line) ==
    LET x == (x_coord + x_line) % DISPLAY_WIDTH
        y == (y_coord + y_line) % DISPLAY_HEIGHT
    IN  x + DISPLAY_WIDTH * y

RECURSIVE DrawCols_SetsCell(_, _, _, _, _, _)
\* mutant of DrawCols: a set bit lights its cell (cell |= true)
DrawCols_SetsCell(acc, pixels, x_coord, y_coord, y_line, x_line) ==
    IF x_line >= 8
    THEN acc
    ELSE IF BitAnd(pixels, 128 \div (2 ^ x_line)) # 0
         THEN LET idx == PixelIndex(x_coord, y_coord, x_line, y_line)
              IN  IF acc.display[idx]
                  THEN DrawCols_SetsCell(
                           [display |-> acc.display, flipped |-> TRUE],
                           pixels, x_coord, y_coord, y_line, x_line + 1)
                  ELSE DrawCols_SetsCell(
                           [display |-> [acc.display EXCEPT ![idx] = TRUE],
                            flipped |-> acc.flipped],
                           pixels, x_coord, y_coord, y_line, x_line + 1)
         ELSE DrawCols_SetsCell(acc, pixels, x_coord, y_coord, y_line,
                                x_line + 1)

RECURSIVE DrawCols(_, _, _, _, _, _)
\* for x_line in 0..8, on the row whose byte is `pixels`; acc is the display
\* so far and the `flipped` flag.  A set bit on a lit cell sets the flag and
\* puts the cell out, on a dark cell it lights it (flipped |= cell;
\* cell ^= true).
DrawCols(acc, pixels, x_coord, y_coord, y_line, x_line) ==
    IF x_line >= 8
    THEN acc
    ELSE IF BitAnd(pixels, 128 \div (2 ^ x_line)) # 0
         THEN LET idx == PixelIndex(x_coord, y_coord, x_line, y_line)
              IN  IF acc.display[idx]
                  THEN DrawCols([display |-> [acc.display EXCEPT ![idx] = FALSE],
                                 flipped |-> TRUE],
                                pixels, x_coord, y_coord, y_line, x_line + 1)
                  ELSE DrawCols([display |-> [acc.display EXCEPT ![idx] = TRUE],
                                 flipped |-> acc.flipped],
                                pixels, x_coord, y_coord, y_line, x_line + 1)
         ELSE DrawCols(acc, pixels, x_coord, y_coord, y_line, x_line + 1)

RECURSIVE DrawRows(_, _, _, _, _, _, _)
\* for y_line in 0..num_rows, then the assignment of the flag register.
\* (Each row is evaluated before the next one is entered: a row without set
\* bits hands on the accumulator it was given.)
DrawRows(m, acc, x_coord, y_coord, num_rows, y_line, overflow_checks) ==
    IF y_line >= num_rows
    THEN [m EXCEPT !.display = acc.display,
                   !.v_registers[15] = IF acc.flipped THEN 1 ELSE 0]
    ELSE IF m.i_register + y_line >= U16 /\ overflow_checks
         THEN Panic([m EXCEPT !.display = acc.display],
                    "attempt to add with overflow")
         ELSE LET addr == (m.i_register + y_line) % U16
              IN  IF addr >= RAM_SIZE
                  THEN Panic([m EXCEPT !.display = acc.display],
                             "index out of bounds")
                  ELSE LET drawn == DrawCols(acc, m.ram[addr], x_coord,
                                             y_coord, y_line, 0)
                       IN  IF drawn = acc
                           THEN DrawRows(m, acc, x_coord, y_coord, num_rows,
                                         y_line + 1, overflow_checks)
                           ELSE DrawRows(m, drawn, x_coord, y_coord, num_rows,
                                         y_line + 1, overflow_checks)

RECURSIVE FirstPressed_FromTop(_, _)
\* mutant of FirstPressed: the keys are scanned from 15 down
FirstPressed_FromTop(ks, i) ==
    IF i >= NUM_KEYS THEN NUM_KEYS
    ELSE IF ks[NUM_KEYS - 1 - i] THEN NUM_KEYS - 1 - i
    ELSE FirstPressed_FromTop(ks, i + 1)

RECURSIVE FirstPressed(_, _)
\* for i in 0..keys.len(): the first pressed key, NUM_KEYS when there is none
FirstPressed(ks, i) ==
    IF i >= NUM_KEYS THEN NUM_KEYS
    ELSE IF ks[i] THEN i
    ELSE FirstPressed(ks, i + 1)

RECURSIVE StoreRegisters_AdvancesIndex(_, _, _)
\* mutant of StoreRegisters: the index register ends past the stored cells
StoreRegisters_AdvancesIndex(m, x, idx) ==
    IF idx > x THEN [m EXCEPT !.i_register = m.i_register + x + 1]
    ELSE IF m.i_register + idx >= RAM_SIZE
         THEN Panic(m, "index out of bounds")
         ELSE StoreRegisters_AdvancesIndex(
                  [m EXCEPT !.ram[m.i_register + idx] = m.v_registers[idx]],
                  x, idx + 1)

RECURSIVE StoreRegisters(_, _, _)
\* FX55: for idx in 0..=x { ram[i + idx] = v_registers[idx] }
StoreRegisters(m, x, idx) ==
    IF idx > x THEN m
    ELSE IF m.i_register + idx >= RAM_SIZE
         THEN Panic(m, "index out of bounds")
         ELSE StoreRegisters(
                  [m EXCEPT !.ram[m.i_register + idx] = m.v_registers[idx]],
                  x, idx + 1)

RECURSIVE LoadRegisters(_, _, _)
\* FX65: for idx in 0..=x { v_registers[idx] = ram[i + idx] }
LoadRegisters(m, x, idx) ==
    IF idx > x THEN m
    ELSE IF m.i_register + idx >= RAM_SIZE
         THEN Panic(m, "index out of bounds")
         ELSE LoadRegisters(
                  [m EXCEPT !.v_registers[idx] = m.ram[m.i_register + idx]],
                  x, idx + 1)

\* mutant of StoreDecimal: the tens are not reduced modulo 10
StoreDecimal_TensNotReduced(m, x, overflow_checks) ==
    LET vx       == m.v_registers[x]
        hundreds == vx \div 100
        tens     == vx \div 10
        ones     == vx % 10
        i        == m.i_register
        Store(mm, off, val) ==
            IF mm.panic # "none" THEN mm
            ELSE IF i + off >= U16 /\ overflow_checks
                 THEN Panic(mm, "attempt to add with overflow")
                 ELSE IF (i + off) % U16 >= RAM_SIZE
                      THEN Panic(mm, "index out of bounds")
                      ELSE [mm EXCEPT !.ram[(i + off) % U16] = val]
    IN  Store(Store(Store(m, 0, hundreds), 1, tens), 2, ones)

\* FX33: the digits are computed in f32; for the integers 0..255 the floored
\* quotients and remainders are exactly the integer ones.  The three stores
\* follow in order, each index checked.
StoreDecimal(m, x, overflow_checks) ==
    LET vx       == m.v_registers[x]
        hundreds == vx \div 100
        tens     == (vx \div 10) % 10
        ones     == vx % 10
        i        == m.i_register
        Store(mm, off, val) ==
            IF mm.panic # "none" THEN mm
            ELSE IF i + off >= U16 /\ overflow_checks
                 THEN Panic(mm, "attempt to add with overflow")
                 ELSE IF (i + off) % U16 >= RAM_SIZE
                      THEN Panic(mm, "index out of bounds")
                      ELSE [mm EXCEPT !.ram[(i + off) % U16] = val]
    IN  Store(Store(Store(m, 0, hundreds), 1, tens), 2, ones)

\* mutant of Skip: the condition is ignored
Skip_Always(m, cond) ==
    [m EXCEPT !.program_counter = m.program_counter + 2]

Skip(m, cond) ==
    IF cond THEN [m EXCEPT !.program_counter = m.program_counter + 2] ELSE m

\* mutant of clear_display: the arm does nothing
clear_display_Noop(m) == m

\* 00E0
clear_display(m) == [m EXCEPT !.display = ClearDisplay]

\* 8XY4: overflowing_add, Vx assigned before VF
add_carry(m, x, y) ==
    LET vx     == m.v_registers[x]
        vy     == m.v_registers[y]
        new_vx == (vx + vy) % U8
        carry  == vx + vy >= U8
        new_vf == IF carry THEN 1 ELSE 0
    IN  [m EXCEPT !.v_registers[x] = new_vx,
                  !.v_registers[15] = new_vf]

\* mutant of sub_borrow: the flag is the borrow itself
sub_borrow_FlagIsBorrow(m, x, y) ==
    LET vx     == m.v_registers[x]
        vy     == m.v_registers[y]
        new_vx == (vx - vy) % U8
        borrow == vx < vy
        new_vf == IF borrow THEN 1 ELSE 0
    IN  [m EXCEPT !.v_registers[x] = new_vx,
                  !.v_registers[15] = new_vf]

\* 8XY5: overflowing_sub of Vy from Vx
sub_borrow(m, x, y) ==
    LET vx     == m.v_registers[x]
        vy     == m.v_registers[y]
        new_vx == (vx - vy) % U8
        borrow == vx < vy
        new_vf == IF borrow THEN 0 ELSE 1
    IN  [m EXCEPT !.v_registers[x] = new_vx,
                  !.v_registers[15] = new_vf]

\* 8XY7: overflowing_sub of Vx from Vy
subn_borrow(m, x, y) ==
    LET vx     == m.v_registers[x]
        vy     == m.v_registers[y]
        new_vx == (vy - vx) % U8
        borrow == vy < vx
        new_vf == IF borrow THEN 0 ELSE 1
    IN  [m EXCEPT !.v_registers[x] = new_vx,
                  !.v_registers[15] = new_vf]

\* mutant of shift_right: VF receives the bit of the shifted value
shift_right_BitAfterShift(m, x) ==
    LET vx == m.v_registers[x]
    IN  [m EXCEPT !.v_registers[x] = vx \div 2,
                  !.v_registers[15] = BitAnd(vx \div 2, 1)]

\* 8XY6: the bit is read first, Vx shifted, then VF assigned
shift_right(m, x) ==
    LET vx == m.v_registers[x]
        least_significant_bit == BitAnd(vx, 1)
    IN  [m EXCEPT !.v_registers[x] = vx \div 2,
                  !.v_registers[15] = least_significant_bit]

\* 8XYE
shift_left(m, x) ==
    LET vx == m.v_registers[x]
        most_significant_bit == BitAnd(vx \div 128, 1)
    IN  [m EXCEPT !.v_registers[x] = (vx * 2) % U8,
                  !.v_registers[15] = most_significant_bit]

\* mutant of wait_key: the key that was read is released
wait_key_ConsumesKey(m, x, overflow_checks) ==
    LET i == FirstPressed(m.keys, 0)
    IN  IF i < NUM_KEYS
        THEN [m EXCEPT !.v_registers[x] = i, !.keys[i] = FALSE]
        ELSE IF m.program_counter < 2 /\ overflow_checks
             THEN Panic(m, "attempt to subtract with overflow")
             ELSE [m EXCEPT !.program_counter = (m.program_counter - 2) % U16]

\* mutant of wait_key: the program counter is not taken back
wait_key_NoRewind(m, x, overflow_checks) ==
    LET i == FirstPressed(m.keys, 0)
    IN  IF i < NUM_KEYS THEN [m EXCEPT !.v_registers[x] = i] ELSE m

\* FX0A: the first pressed key goes to Vx; with none the program counter
\* goes back to the instruction
wait_key(m, x, overflow_checks) ==
    LET i == FirstPressed(m.keys, 0)
    IN  IF i < NUM_KEYS
        THEN [m EXCEPT !.v_registers[x] = i]
        ELSE IF m.program_counter < 2 /\ overflow_checks
             THEN Panic(m, "attempt to subtract with overflow")
             ELSE [m EXCEPT !.program_counter = (m.program_counter - 2) % U16]

----------------------------------------------------------------------------
(* execute: one arm per instruction.  rn is the byte random() returns. *)

execute(m, op, rn, overflow_checks) ==
    LET arm == Decode(op)
        x   == D2(op)
        y   == D3(op)
        nn  == op % 256
        nnn == op % 4096
        vx  == m.v_registers[x]
        vy  == m.v_registers[y]
    IN  CASE arm = "0000" -> m
          [] arm = "00E0" -> clear_display(m)
          [] arm = "00EE" -> pop(m, overflow_checks)
          [] arm = "1NNN" -> [m EXCEPT !.program_counter = nnn]
          [] arm = "2NNN" ->
                LET pushed == push(m, m.program_counter)
                IN  IF pushed.panic # "none" THEN pushed
                    ELSE [pushed EXCEPT !.program_counter = nnn]
          [] arm = "3XNN" -> Skip(m, vx = nn)
          [] arm = "4XNN" -> Skip(m, vx # nn)
          [] arm = "5XY0" -> Skip(m, vx = vy)
          [] arm = "6XNN" -> [m EXCEPT !.v_registers[x] = nn]
          [] arm = "7XNN" -> [m EXCEPT !.v_registers[x] = (vx + nn) % U8]
          [] arm = "8XY0" -> [m EXCEPT !.v_registers[x] = vy]
          [] arm = "8XY1" -> [m EXCEPT !.v_registers[x] = BitOr(vx, vy)]
          [] arm = "8XY2" -> [m EXCEPT !.v_registers[x] = BitAnd(vx, vy)]
          [] arm = "8XY3" -> [m EXCEPT !.v_registers[x] = BitXor(vx, vy)]
          [] arm = "8XY4" -> add_carry(m, x, y)
          [] arm = "8XY5" -> sub_borrow(m, x, y)
          [] arm = "8XY6" -> shift_right(m, x)
          [] arm = "8XY7" -> subn_borrow(m, x, y)
          [] arm = "8XYE" -> shift_left(m, x)
          [] arm = "9XY0" -> Skip(m, vx # vy)
          [] arm = "ANNN" -> [m EXCEPT !.i_register = nnn]
          [] arm = "BNNN" ->
                [m EXCEPT !.program_counter = m.v_registers[0] + nnn]
          [] arm = "CXNN" -> [m EXCEPT !.v_registers[x] = BitAnd(rn, nn)]
          [] arm = "DXYN" ->
                DrawRows(m, [display |-> m.display, flipped |-> FALSE],
                         vx, vy, D4(op), 0, overflow_checks)
          [] arm = "EX9E" ->
                IF vx >= NUM_KEYS THEN Panic(m, "index out of bounds")
                ELSE Skip(m, m.keys[vx])
          [] arm = "EXA1" ->
                IF vx >= NUM_KEYS THEN Panic(m, "index out of bounds")
                ELSE Skip(m, ~m.keys[vx])
          [] arm = "FX07" -> [m EXCEPT !.v_registers[x] = m.delay_timer]
          [] arm = "FX0A" -> wait_key(m, x, overflow_checks)
          [] arm = "FX15" -> [m EXCEPT !.delay_timer = vx]
          [] arm = "FX18" -> [m EXCEPT !.sound_timer = vx]
          [] arm = "FX1E" -> [m EXCEPT !.i_register = (m.i_register + vx) % U16]
          [] arm = "FX29" -> [m EXCEPT !.i_register = vx * 5]
          [] arm = "FX33" -> StoreDecimal(m, x, overflow_checks)
          [] arm = "FX55" -> StoreRegisters(m, x, 0)
          [] arm = "FX65" -> LoadRegisters(m, x, 0)
          [] OTHER        -> Panic(m, "not implemented")

\* mutant of tick: the delay timer counts down with every instruction
tick_CountsDown(m, rn, overflow_checks) ==
    LET f == fetch(m)
    IN  IF f.m.panic # "none" THEN f.m
        ELSE [execute(f.m, f.op, rn, overflow_checks)
                 EXCEPT !.delay_timer = IF @ > 0 THEN @ - 1 ELSE @]

\* tick: fetch, then execute the fetched word
tick(m, rn, overflow_checks) ==
    LET f == fetch(m)
    IN  IF f.m.panic # "none" THEN f.m
        ELSE execute(f.m, f.op, rn, overflow_checks)

\* mutant of tick_timers: wrapping_sub instead of the guarded decrement
tick_timers_Wrapping(m) ==
    [m EXCEPT !.delay_timer = (@ - 1) % U8,
              !.sound_timer = (@ - 1) % U8]

tick_timers(m) ==
    [m EXCEPT !.delay_timer = IF @ > 0 THEN @ - 1 ELSE @,
              !.sound_timer = IF @ > 0 THEN @ - 1 ELSE @]

get_display == display

get_audio == sound_timer

keypress(m, idx, pressed) ==
    IF idx >= NUM_KEYS THEN Panic(m, "index out of bounds")
    ELSE [m EXCEPT !.keys[idx] = pressed]

RECURSIVE CopySpan(_, _, _, _, _)
\* the bytes lo..hi of data copied to r, the first half before the second.
\* (Halving keeps the evaluation shallow for a program that fills memory;
\* the first half is evaluated before the second is entered.)
CopySpan(r, start, data, lo, hi) ==
    IF lo > hi THEN r
    ELSE IF lo = hi THEN [r EXCEPT ![start + lo - 1] = data[lo]]
    ELSE LET mid  == (lo + hi) \div 2
             left == CopySpan(r, start, data, lo, mid)
         IN  IF left = r
             THEN CopySpan(r, start, data, mid + 1, hi)
             ELSE CopySpan(left, start, data, mid + 1, hi)

\* ram[start..].copy_from_slice(data), from the i-th byte on: every cell of
\* the destination takes its byte, the others keep theirs.  (A short slice
\* is copied cell by cell, a long one by one function: the result is the
\* same, the evaluation is the cheaper of the two.)
CopyFromSlice(r, start, data, i) ==
    LET end == start + Len(data)
    IN  IF end - start < 256
        THEN CopySpan(r, start, data, i, Len(data))
        ELSE [a \in DOMAIN r |->
                 IF a >= start + i - 1 /\ a < end THEN data[a - start + 1]
                 ELSE r[a]]

\* mutant of load: the program is copied into a cleared memory
load_ClearsRest(m, data) ==
    LET start == START_ADDRESS
        end   == START_ADDRESS + Len(data)
    IN  IF end > RAM_SIZE
        THEN Panic(m, "range end index out of range")
        ELSE [m EXCEPT !.ram = CopyFromSlice(FontRam, start, data, 1)]

\* mutant of load: the program is copied to the start of ram
load_AtZero(m, data) ==
    IF Len(data) > RAM_SIZE
    THEN Panic(m, "range end index out of range")
    ELSE [m EXCEPT !.ram = CopyFromSlice(m.ram, 0, data, 1)]

\* load: the slice ram[start..end] panics when end is past the end of ram,
\* before anything is copied
load(m, data) ==
    LET start == START_ADDRESS
        end   == START_ADDRESS + Len(data)
    IN  IF end > RAM_SIZE
        THEN Panic(m, "range end index out of range")
        ELSE [m EXCEPT !.ram = CopyFromSlice(m.ram, start, data, 1)]

\* mutant of reset: the keys are not released
reset_KeepsKeys(m) ==
    [m EXCEPT !.program_counter = START_ADDRESS,
              !.ram = FontRam,
              !.display = ClearDisplay,
              !.v_registers = [r \in 0 .. (NUM_REGISTERS - 1) |-> 0],
              !.i_register = 0,
              !.stack_pointer = 0,
              !.stack = [s \in 0 .. (STACK_SIZE - 1) |-> 0],
              !.delay_timer = 0,
              !.sound_timer = 0]

\* reset assigns every field, then copies the font in
reset(m) ==
    [m EXCEPT !.program_counter = START_ADDRESS,
              !.ram = FontRam,
              !.display = ClearDisplay,
              !.v_registers = [r \in 0 .. (NUM_REGISTERS - 1) |-> 0],
              !.i_register = 0,
              !.stack_pointer = 0,
              !.stack = [s \in 0 .. (STACK_SIZE - 1) |-> 0],
              !.keys = [k \in 0 .. (NUM_KEYS - 1) |-> FALSE],
              !.delay_timer = 0,
              !.sound_timer = 0]

----------------------------------------------------------------------------
(* The host's calls as actions.  A panic ends the process: no call follows. *)

Becomes(m) ==
    /\ program_counter' = m.program_counter
    /\ ram' = m.ram
    /\ display' = m.display
    /\ v_registers' = m.v_registers
    /\ i_register' = m.i_register
    /\ stack_pointer' = m.stack_pointer
    /\ stack' = m.stack
    /\ keys' = m.keys
    /\ delay_timer' = m.delay_timer
    /\ sound_timer' = m.sound_timer
    /\ panic' = m.panic

\* no tick yet, since construction or the last reset
NoTick == [tick |-> FALSE, op |-> 0, at |-> 0, shown |-> <<>>, calls |-> <<>>]

\* the word at the program counter, 0 when the fetch itself is out of bounds
NextWord == fetch(Hachi).op

Init ==
    /\ program_counter = new.program_counter
    /\ ram = new.ram
    /\ display = new.display
    /\ v_registers = new.v_registers
    /\ i_register = new.i_register
    /\ stack_pointer = new.stack_pointer
    /\ stack = new.stack
    /\ keys = new.keys
    /\ delay_timer = new.delay_timer
    /\ sound_timer = new.sound_timer
    /\ panic = new.panic
    /\ last = NoTick
    /\ loads = 0
    /\ ticks = 0

\* the host loads at most max programs
LoadUpTo(data, max) ==
    /\ panic = "none"
    /\ loads < max
    /\ Becomes(load(Hachi, data))
    /\ loads' = loads + 1
    /\ UNCHANGED <<last, ticks>>

Load(data) == LoadUpTo(data, MaxLoads)

\* the calls not yet returned from, after a tick: a call that returned adds
\* its address and the stack pointer it found, a return that returned takes
\* the last one off
CallsAfter(returned) ==
    IF ~returned THEN last.calls
    ELSE IF Decode(NextWord) = "2NNN"
         THEN Append(last.calls, [at |-> program_counter, sp |-> stack_pointer])
         ELSE IF Decode(NextWord) = "00EE" /\ last.calls # <<>>
              THEN SubSeq(last.calls, 1, Len(last.calls) - 1)
              ELSE last.calls

\* the host ticks at most max times
TickUpTo(max) ==
    /\ panic = "none"
    /\ ticks < max
    /\ \E rn \in (IF Decode(NextWord) = "CXNN" THEN 0 .. (U8 - 1) ELSE {0}),
          overflow_checks \in BOOLEAN :
            Becomes(tick(Hachi, rn, overflow_checks))
    /\ last' = [tick  |-> TRUE,
                op    |-> NextWord,
                at    |-> program_counter,
                shown |-> IF Decode(NextWord) = "DXYN" THEN display ELSE <<>>,
                calls |-> CallsAfter(panic' = "none")]
    /\ ticks' = ticks + 1
    /\ UNCHANGED loads

Tick == TickUpTo(MaxTicks)

TickTimers ==
    /\ panic = "none"
    /\ Becomes(tick_timers(Hachi))
    /\ UNCHANGED <<last, loads, ticks>>

Keypress(idx, pressed) ==
    /\ panic = "none"
    /\ Becomes(keypress(Hachi, idx, pressed))
    /\ UNCHANGED <<last, loads, ticks>>

Reset ==
    /\ panic = "none"
    /\ Becomes(reset(Hachi))
    /\ last' = NoTick
    /\ UNCHANGED <<loads, ticks>>


----------------------------------------------------------------------------
(* The programs the host loads, as sequences of instruction words *)

Bytes(words) ==
    [i \in 1 .. (2 * Len(words)) |->
        IF i % 2 = 1 THEN words[(i + 1) \div 2] \div 256
                     ELSE words[i \div 2] % 256]

Programs ==
    { \* add without carry, decimal digits of V0 at I = 0, jump
      Bytes(<<\h600A, \h610B, \h8014, \hF033, \h1228>>),
      \* store V0..V1 at 78 and 79, then at 333 and 334, load them back
      Bytes(<<\hA04E, \h61FF, \hF155, \hF11E, \hF155, \hF165>>),
      \* glyph 3 drawn at (3, 3), cleared, drawn twice
      Bytes(<<\h6003, \hF029, \hD005, \h00E0, \hD005, \hD005>>),
      \* timers set and read
      Bytes(<<\h6002, \hF015, \hF018, \hF107>>),
      \* wait for a key into V1, again
      Bytes(<<\hF10A, \h1200>>),
      \* call, return, jump to itself
      Bytes(<<\h2206, \h1202, \h0000, \h00EE>>) }

FlowPrograms ==
    Programs \cup
    { \* return with an empty stack
      Bytes(<<\h00EE>>),
      \* skips on an immediate, taken and not taken
      Bytes(<<\h6005, \h3005, \h0000, \h4005, \h3006, \h4006>>),
      \* skips on two registers, taken and not taken
      Bytes(<<\h6105, \h5010, \h9010, \h0000, \h9000, \h5000>>),
      \* random byte, jump to V0 + nnn
      Bytes(<<\h6004, \hC103, \hB300>>),
      \* skips on key 3, then on key index 16
      Bytes(<<\h6003, \hE09E, \hE0A1, \hE0A1, \h6010, \hE09E>>),
      \* subtract, then a word no arm matches
      Bytes(<<\h8105, \h5001>>),
      \* arithmetic and shifts
      Bytes(<<\h60F0, \h7020, \h8100, \h8016, \h801E, \h8107>>),
      \* or, and, xor, glyph address
      Bytes(<<\h603C, \h610F, \h8011, \h8012, \h8013, \hF129>>),
      \* run off the end of ram
      Bytes(<<\h1FFE>>),
      Bytes(<<\h1FFF>>) }

\* the key indices the host passes
KeyArgs == {3}

----------------------------------------------------------------------------
(* The machine from construction, driven by any calls of the host *)

Next ==
    \/ \E data \in Programs : Load(data)
    \/ Tick
    \/ TickTimers
    \/ \E idx \in KeyArgs, pressed \in BOOLEAN : Keypress(idx, pressed)
    \/ Reset

Spec == Init /\ [][Next]_vars

----------------------------------------------------------------------------
(* A machine constructed and loaded with one program of a family, then    *)
(* run: the state after new() and load(data).                             *)

Loaded(data) ==
    LET m == load(new, data)
    IN  /\ program_counter = m.program_counter
        /\ ram = m.ram
        /\ display = m.display
        /\ v_registers = m.v_registers
        /\ i_register = m.i_register
        /\ stack_pointer = m.stack_pointer
        /\ stack = m.stack
        /\ keys = m.keys
        /\ delay_timer = m.delay_timer
        /\ sound_timer = m.sound_timer
        /\ panic = m.panic
        /\ last = NoTick
        /\ loads = 1
        /\ ticks = 0

InitFlow == \E data \in FlowPrograms : Loaded(data)

NextFlow ==
    \/ Tick
    \/ TickTimers
    \/ \E idx \in KeyArgs, pressed \in BOOLEAN : Keypress(idx, pressed)
    \/ Reset

SpecFlow == InitFlow /\ [][NextFlow]_vars


----------------------------------------------------------------------------
(* One instruction word alone in memory.  The groups whose arms look at    *)
(* the third and fourth nibble get every value of both; the groups matched *)
(* on the first nibble alone get the corners of their operand.             *)

Word(d1, d2, d3, d4) == d1 * 4096 + d2 * 256 + d3 * 16 + d4

DecodeWords ==
    {Word(d1, d2, d3, d4) :
        d1 \in {0, 5, 8, 9, 14, 15}, d2 \in {0, 1}, d3 \in Nib, d4 \in Nib}
    \cup
    {Word(d1, d2, d3, d4) :
        d1 \in {1, 2, 3, 4, 6, 7, 10, 11, 12, 13}, d2 \in {0, 1},
        d3 \in {0, 1, 14, 15}, d4 \in {0, 1, 14, 15}}

InitDecode == \E w \in DecodeWords : Loaded(Bytes(<<w>>))

NextDecode == Tick

SpecDecode == InitDecode /\ [][NextDecode]_vars

----------------------------------------------------------------------------
(* Two registers loaded, then one arithmetic or shift instruction on them *)

AluRegs == {0, 1, 15}
AluBytes == {0, 1, 10, 11, 128, 200, 255}
AluOps == {4, 5, 6, 7, 14}

AluPrograms ==
    {Bytes(<<Word(6, x, a \div 16, a % 16),
             Word(6, y, b \div 16, b % 16),
             Word(8, x, y, k)>>) :
        x \in AluRegs, y \in AluRegs, a \in AluBytes, b \in AluBytes,
        k \in AluOps}

InitAlu == \E data \in AluPrograms : Loaded(data)

NextAlu == Tick

SpecAlu == InitAlu /\ [][NextAlu]_vars

----------------------------------------------------------------------------
(* A sprite drawn at (Vx, V1), Vx moved by dd, the sprite drawn again.     *)
(* The sprite is glyph data (I = 0), the program's own bytes (I = 512) or  *)
(* the last bytes of ram (I = 4081 and 4090).                              *)

DrawRegs == {0, 15}
DrawXs == {0, 60, 255}
DrawYs == {0, 30, 255}
DrawIs == {0, 512, 4081, 4090}
DrawRows_n == {0, 1, 5, 15}
DrawMoves == {0, 1}

DrawPrograms ==
    {Bytes(<<Word(6, x, aa \div 16, aa % 16),
             Word(6, 1, bb \div 16, bb % 16),
             10 * 4096 + nnn,
             Word(13, x, 1, n),
             Word(7, x, 0, dd),
             Word(13, x, 1, n)>>) :
        x \in DrawRegs, aa \in DrawXs, bb \in DrawYs, nnn \in DrawIs,
        n \in DrawRows_n, dd \in DrawMoves}

InitDraw == \E data \in DrawPrograms : Loaded(data)

NextDraw == Tick

SpecDraw == InitDraw /\ [][NextDraw]_vars

----------------------------------------------------------------------------
(* The keypad: the host loads a program that reads keys, presses and      *)
(* releases keys 0, 3 and 15 in any order, ticks and ticks the timers.    *)

PadKeys == {0, 3, 15}

KeyPrograms ==
    { \* wait for a key into V1, again
      Bytes(<<\hF10A, \h1200>>),
      \* skip on key 3 pressed, on key 3 not pressed, wait into V2
      Bytes(<<\h6003, \hE09E, \hE0A1, \hF20A, \hF20A, \hE2A1>>) }

NextKeys ==
    \/ \E data \in KeyPrograms : Load(data)
    \/ Tick
    \/ TickTimers
    \/ \E idx \in PadKeys, pressed \in BOOLEAN : Keypress(idx, pressed)

SpecKeys == Init /\ [][NextKeys]_vars

----------------------------------------------------------------------------
(* Loading: the host loads a program, ticks, and loads again.  The        *)
(* programs are a short one that sets registers, a timer, the index       *)
(* register, the display and the stack, a shorter one, the empty one, one *)
(* that fills memory to its last cell and one that is a byte too long.    *)

LoadPrograms ==
    { Bytes(<<\h6005, \hF015, \hA005, \hD005, \h2200>>),
      Bytes(<<\h1200>>),
      <<>>,
      [i \in 1 .. (RAM_SIZE - START_ADDRESS) |-> 255],
      [i \in 1 .. (RAM_SIZE - START_ADDRESS + 1) |-> 255] }

NextLoad ==
    \/ \E data \in LoadPrograms : LoadUpTo(data, MaxReloads)
    \/ Tick

SpecLoad == Init /\ [][NextLoad]_vars

----------------------------------------------------------------------------
(* Calls and returns.  Nest(d) is d calls, each to the next, every one     *)
(* followed by a return, and a return at the end: the machine goes d deep, *)
(* comes back call by call, and returns once more with an empty stack.    *)
(* With d = 17 the last call finds the stack full.                        *)

RECURSIVE Nest(_, _)
Nest(d, k) ==
    IF k >= d THEN <<\h00EE>>
    ELSE <<2 * 4096 + START_ADDRESS + 4 * (k + 1), \h00EE>> \o Nest(d, k + 1)

StackPrograms ==
    {Bytes(Nest(d, 0)) : d \in 1 .. (STACK_SIZE + 1)}
    \cup
    { \* a routine that calls itself
      Bytes(<<\h2200>>),
      \* a routine at 518 called from 512 and from 514 in a loop, itself
      \* calling the routine at 528
      Bytes(<<\h2206, \h2206, \h1200, \h7001, \h2210, \h00EE,
              \h0000, \h0000, \h00EE>>) }

InitStack == \E data \in StackPrograms : Loaded(data)

NextStack == TickUpTo(MaxStackTicks)

SpecStack == InitStack /\ [][NextStack]_vars

----------------------------------------------------------------------------
(* V0 and V1 set, V0..Vx stored at the index register, a register and the *)
(* flag changed by an addition, V0..Vx loaded back.  The index register   *)
(* points into the glyph table, into free memory, or so that the last     *)
(* register falls on the last cell of memory or past it.                  *)

StoreRegs == {0, 1, 15}
StoreIs == {0, 300, 4080, 4094, 4095}
StoreBytes == {7, 255}
StoreMids == {\h8014, \h8104}

StorePrograms ==
    {Bytes(<<Word(6, 0, aa \div 16, aa % 16),
             \h6109,
             10 * 4096 + nnn,
             Word(15, x, 5, 5),
             mid,
             Word(15, x, 6, 5)>>) :
        x \in StoreRegs, nnn \in StoreIs, aa \in StoreBytes,
        mid \in StoreMids}

InitStore == \E data \in StorePrograms : Loaded(data)

NextStore == Tick

SpecStore == InitStore /\ [][NextStore]_vars

----------------------------------------------------------------------------
(* A register set to any byte, the index register set, the decimal digits *)
(* of the register stored.                                                *)

DecimalRegs == {0, 15}
DecimalIs == {0, 300, 4093, 4094}

DecimalPrograms ==
    {Bytes(<<Word(6, x, vv \div 16, vv % 16),
             10 * 4096 + nnn,
             Word(15, x, 3, 3)>>) :
        x \in DecimalRegs, vv \in 0 .. (U8 - 1), nnn \in DecimalIs}

InitDecimal == \E data \in DecimalPrograms : Loaded(data)

NextDecimal == Tick

SpecDecimal == InitDecimal /\ [][NextDecimal]_vars

----------------------------------------------------------------------------
(* A sprite drawn as background at (V1, Vr), then drawn twice in a row at *)
(* (Vr, V1).  The sprite is glyph data, the program's own bytes, or the   *)
(* empty cells at the end of memory.                                      *)

RedrawRegs == {0, 15}
RedrawXs == {0, 1, 62}
RedrawYs == {0, 30, 255}
RedrawIs == {0, 512, 4081, 4090}
RedrawRows == {0, 1, 5, 15}

RedrawPrograms ==
    {Bytes(<<Word(6, r, aa \div 16, aa % 16),
             Word(6, 1, bb \div 16, bb % 16),
             10 * 4096 + nnn,
             Word(13, 1, r, n),
             Word(13, r, 1, n),
             Word(13, r, 1, n)>>) :
        r \in RedrawRegs, aa \in RedrawXs, bb \in RedrawYs,
        nnn \in RedrawIs, n \in RedrawRows}

InitRedraw == \E data \in RedrawPrograms : Loaded(data)

NextRedraw == Tick

SpecRedraw == InitRedraw /\ [][NextRedraw]_vars

----------------------------------------------------------------------------
(* Vocabulary of the properties.  A step is a tick when it counts one; the *)
(* word it executes and its operands are those of the state it leaves.     *)

TickStep == ticks' = ticks + 1

\* a tick step that returned, and one that panicked
Ticked == TickStep /\ panic' = "none"

X == D2(NextWord)
Y == D3(NextWord)
NN == NextWord % 256
NNN == NextWord % 4096
VX == v_registers[X]
VY == v_registers[Y]

IsGroup(d1) == D1(NextWord) = d1
IsForm(d1, d4) == D1(NextWord) = d1 /\ D4(NextWord) = d4
IsKeyForm(d1, d3, d4) ==
    D1(NextWord) = d1 /\ D3(NextWord) = d3 /\ D4(NextWord) = d4

GlyphIntact == \A a \in 0 .. 79 : ram[a] = FONTSET[a + 1]

NoKeyPressed == \A k \in 0 .. 15 : ~keys[k]

----------------------------------------------------------------------------
(* C1 *)

\* C1 as stated: no call other than reset changes memory cells 0..79, so
\* once they hold the glyph table they hold it after every step.
C1_GlyphNeverOverwritten == [][GlyphIntact => GlyphIntact']_vars

\* C1, amended: cells 0..79 keep the glyph table over every load,
\* tick_timers and key_event and over every tick except one that executes
\* FX33 or FX55 with the index register below 80 (those write memory at the
\* index register, wherever it points).
C1_GlyphKeptButForStores ==
    [][ ( /\ GlyphIntact
          /\ ~ ( /\ TickStep
                 /\ (IsKeyForm(15, 3, 3) \/ IsKeyForm(15, 5, 5))
                 /\ i_register < 80 ) )
        => GlyphIntact' ]_vars

\* FX55 has stored V0..V1 at 333 and 334, after the host pressed a key, and
\* did not touch the glyph table there; the earlier FX55 at 78 did
C1_Witness ==
    /\ last.tick /\ last.op = \hF155 /\ i_register = 333
    /\ ram[333] = 0 /\ ram[334] = 255
    /\ ram[79] = 255
    /\ keys[3]

----------------------------------------------------------------------------
(* C2 *)

Fresh ==
    /\ program_counter = 512
    /\ \A a \in 0 .. 4095 :
          ram[a] = IF a < 80 THEN FONTSET[a + 1] ELSE 0
    /\ \A c \in 0 .. 2047 : display[c] = FALSE
    /\ \A r \in 0 .. 15 : v_registers[r] = 0
    /\ i_register = 0
    /\ stack_pointer = 0
    /\ \A sl \in 0 .. 15 : stack[sl] = 0
    /\ \A k \in 0 .. 15 : keys[k] = FALSE
    /\ delay_timer = 0
    /\ sound_timer = 0
    /\ DOMAIN ram = 0 .. 4095 /\ DOMAIN display = 0 .. 2047
    /\ DOMAIN v_registers = 0 .. 15 /\ DOMAIN stack = 0 .. 15
    /\ DOMAIN keys = 0 .. 15

\* C2: a reset from any reachable state leaves the machine equal, field by
\* field, to a freshly constructed one.
C2_ResetIsFresh == [][Reset => (Fresh' /\ Hachi' = new)]_vars

\* a reset has acted on a machine that had run the call-and-return program:
\* the machine is fresh although ticks were made
C2_Witness == Fresh /\ ticks >= 2 /\ loads >= 1 /\ ~last.tick

----------------------------------------------------------------------------
(* C9 *)

\* C9: the display changes in a tick only when the word is DXYN or 00E0;
\* load, tick_timers and key_event never change it; a tick of 00E0 leaves
\* every cell false.
C9_DisplayFrame ==
    [][ /\ (TickStep /\ display' # display)
            => (IsGroup(13) \/ NextWord = \h00E0)
        /\ (Tick /\ NextWord = \h00E0) => \A c \in 0 .. 2047 : ~display'[c]
        /\ (\/ \E data \in Programs : Load(data)
            \/ TickTimers
            \/ \E idx \in KeyArgs, pressed \in BOOLEAN : Keypress(idx, pressed))
            => display' = display ]_vars

\* 00E0 has cleared the display on which glyph 3 had been drawn
C9_Witness ==
    /\ last.tick /\ last.op = \h00E0 /\ last.at = 518
    /\ v_registers[0] = 3 /\ i_register = 15
    /\ \A c \in 0 .. 2047 : ~display[c]

----------------------------------------------------------------------------
(* C10 *)

\* C10: tick_timers lowers each nonzero timer by one, leaves a zero timer
\* at zero, and changes nothing else; get_audio is the sound timer.
C10_TimersFloorAtZero ==
    [][ TickTimers =>
          /\ delay_timer' = IF delay_timer = 0 THEN 0 ELSE delay_timer - 1
          /\ sound_timer' = IF sound_timer = 0 THEN 0 ELSE sound_timer - 1
          /\ delay_timer' \in 0 .. 255 /\ sound_timer' \in 0 .. 255
          /\ get_audio' = sound_timer'
          /\ UNCHANGED <<program_counter, ram, display, v_registers,
                         i_register, stack_pointer, stack, keys, panic>> ]_vars

\* both timers were set to 2; tick_timers has brought the delay timer to 0
\* (and was called again there) while the sound timer, set later, is at 1
C10_Witness ==
    /\ last.tick /\ last.op = \hF018
    /\ v_registers[0] = 2 /\ delay_timer = 0 /\ sound_timer = 1


----------------------------------------------------------------------------
(* C3 *)

\* where the table of instructions puts the program counter after a tick
\* that fetched at the current program counter
TablePC ==
    LET a == program_counter
        SkipIf(cond) == IF cond THEN a + 4 ELSE a + 2
    IN  CASE IsGroup(1)  -> NNN
          [] IsGroup(2)  -> NNN
          [] IsGroup(11) -> v_registers[0] + NNN
          [] NextWord = \h00EE -> stack[stack_pointer - 1]
          [] IsGroup(3)  -> SkipIf(VX = NN)
          [] IsGroup(4)  -> SkipIf(VX # NN)
          [] IsForm(5, 0) -> SkipIf(VX = VY)
          [] IsForm(9, 0) -> SkipIf(VX # VY)
          [] IsKeyForm(14, 9, 14) -> SkipIf(keys[VX])
          [] IsKeyForm(14, 10, 1) -> SkipIf(~keys[VX])
          [] IsKeyForm(15, 0, 10) /\ NoKeyPressed -> a
          [] OTHER -> a + 2

\* C3: a tick that executes a recognized instruction fetched at a leaves
\* the program counter at a+2, but for jumps, calls, returns, skips and the
\* wait for a key, where it is what the table says.
C3_ProgramCounter == [][Ticked => program_counter' = TablePC]_vars

\* a skip was taken (3005 with V0 = 5) and one was not (4005), a call went
\* to its target and a return came back: the last of these is in the state
C3_Witness ==
    \/ /\ panic = "none" /\ last.tick /\ last.op = \h3005
       /\ program_counter = last.at + 4
    \/ /\ panic = "none" /\ last.tick /\ last.op = \h00EE
       /\ program_counter = 514 /\ stack_pointer = 0 /\ stack[0] = 514

----------------------------------------------------------------------------
(* C4 *)

WaitAtPC == IsKeyForm(15, 0, 10)

OnlyPressed(k) == \A j \in 0 .. 15 : keys[j] <=> (j = k)

\* C4: while FX0A is at the program counter and no key is pressed, ticks
\* and tick_timers change nothing but the timers (a tick not even those);
\* with k the one pressed key, the tick sets Vx to k and leaves the program
\* counter 2 past the instruction.
C4_WaitForKey ==
    [][ /\ (WaitAtPC /\ NoKeyPressed /\ (TickStep \/ TickTimers))
            => /\ UNCHANGED <<program_counter, ram, display, v_registers,
                              i_register, stack_pointer, stack, keys, panic>>
               /\ TickStep => UNCHANGED <<delay_timer, sound_timer>>
        /\ \A k \in 0 .. 15 :
              (WaitAtPC /\ OnlyPressed(k) /\ TickStep)
                  => /\ v_registers' = [v_registers EXCEPT ![X] = k]
                     /\ program_counter' = program_counter + 2
                     /\ panic' = "none"
                     /\ UNCHANGED <<ram, display, i_register, stack_pointer,
                                    stack, keys, delay_timer, sound_timer>>
      ]_vars

\* the third tick of the waiting program found key 3 pressed: V1 is 3 and
\* the program counter is past the instruction
C4_Witness ==
    /\ last.tick /\ last.op = \hF10A /\ last.at = 512 /\ ticks >= 3
    /\ v_registers[1] = 3 /\ program_counter = 514 /\ keys[3]

----------------------------------------------------------------------------
(* C5 *)

\* the rows of the instruction table, read off the nibbles of a word
InTable(op) ==
    LET d1 == D1(op)
        d2 == D2(op)
        d3 == D3(op)
        d4 == D4(op)
    IN  \/ d1 = 0 /\ d2 = 0 /\ <<d3, d4>> \in {<<0, 0>>, <<14, 0>>, <<14, 14>>}
        \/ d1 \in {1, 2, 3, 4, 6, 7, 10, 11, 12, 13}
        \/ d1 \in {5, 9} /\ d4 = 0
        \/ d1 = 8 /\ d4 \in {0, 1, 2, 3, 4, 5, 6, 7, 14}
        \/ d1 = 14 /\ <<d3, d4>> \in {<<9, 14>>, <<10, 1>>}
        \/ d1 = 15 /\ <<d3, d4>> \in
               {<<0, 7>>, <<0, 10>>, <<1, 5>>, <<1, 8>>, <<1, 14>>,
                <<2, 9>>, <<3, 3>>, <<5, 5>>, <<6, 5>>}

\* C5 as stated: a tick on a word of the table does not fault, a tick on
\* any other word takes the unrecognized-instruction path.
C5_TableWordsNeverFault ==
    [][ TickStep /\ program_counter + 1 < 4096 =>
          IF InTable(NextWord) THEN panic' = "none"
          ELSE panic' = "not implemented" ]_vars

\* C5, amended: a tick on a word of the table never takes the
\* unrecognized-instruction path (it can still end in an out-of-bounds or
\* overflow panic of its row, as 00EE does on an empty stack), a tick on
\* any other word always takes it and changes nothing but the program
\* counter, and no word matches two arms.
C5_DispatchTotal ==
    [][ TickStep /\ program_counter + 1 < 4096 =>
          /\ Cardinality(Matching(NextWord)) <= 1
          /\ InTable(NextWord) <=> (Matching(NextWord) # {})
          /\ InTable(NextWord) <=> (panic' # "not implemented")
          /\ ~InTable(NextWord) =>
                /\ program_counter' = program_counter + 2
                /\ UNCHANGED <<ram, display, v_registers, i_register,
                               stack_pointer, stack, keys, delay_timer,
                               sound_timer>> ]_vars

\* the word 5001 alone in memory has been ticked: the process has ended on
\* the unrecognized-instruction path
C5_Witness ==
    /\ last.tick /\ last.op = \h5001 /\ last.at = 512
    /\ panic = "not implemented"

----------------------------------------------------------------------------
(* C6 *)

\* C6: 8xy4, 8xy5 and 8xy7 leave in V15 the carry, resp. the absence of a
\* borrow, of the operands as they were before the instruction, and, when x
\* is not 15, the sum or difference modulo 256 in Vx; 0x0A + 0x0B gives 21
\* and no carry.
C6_AddSubFlags ==
    [][ Ticked =>
          /\ IsForm(8, 4) =>
                /\ v_registers'[15] = IF VX + VY > 255 THEN 1 ELSE 0
                /\ X # 15 => v_registers'[X] = (VX + VY) % 256
          /\ IsForm(8, 5) =>
                /\ v_registers'[15] = IF VX >= VY THEN 1 ELSE 0
                /\ X # 15 => v_registers'[X] = (VX - VY) % 256
          /\ IsForm(8, 7) =>
                /\ v_registers'[15] = IF VY >= VX THEN 1 ELSE 0
                /\ X # 15 => v_registers'[X] = (VY - VX) % 256
          /\ (IsForm(8, 4) \/ IsForm(8, 5) \/ IsForm(8, 7)) =>
                \A r \in 0 .. 15 :
                    r \notin {X, 15} => v_registers'[r] = v_registers[r]
          /\ ( /\ NextWord = \h8014
               /\ v_registers[0] = 10 /\ v_registers[1] = 11 ) =>
                v_registers'[0] = 21 /\ v_registers'[15] = 0 ]_vars

\* 600A, 610B, 8014 have run: V0 = 21, V15 = 0
C6_Witness ==
    /\ last.tick /\ last.op = \h8014 /\ ticks = 3
    /\ v_registers[0] = 21 /\ v_registers[1] = 11 /\ v_registers[15] = 0

----------------------------------------------------------------------------
(* C7 *)

\* the two assignments of the table, one after the other on the registers
ShiftRightInOrder ==
    LET flagged == [v_registers EXCEPT ![15] = v_registers[X] % 2]
    IN  [flagged EXCEPT ![X] = flagged[X] \div 2]

ShiftLeftInOrder ==
    LET flagged == [v_registers EXCEPT ![15] = (v_registers[X] \div 128) % 2]
    IN  [flagged EXCEPT ![X] = (flagged[X] * 2) % 256]

\* C7 as stated: for every x, 15 included, the registers after 8x_6 and
\* 8x_E are those of "V15 := bit; Vx := shifted Vx" performed in that order.
C7_ShiftsInTableOrder ==
    [][ Ticked =>
          /\ IsForm(8, 6) => v_registers' = ShiftRightInOrder
          /\ IsForm(8, 14) => v_registers' = ShiftLeftInOrder ]_vars

\* C7, amended: for x other than 15 the registers after 8x_6 and 8x_E are
\* those of the two assignments in the order of the table; for x = 15 the
\* register ends at the bit shifted out of it (bit 0, resp. bit 7, of its
\* old value), the flag being assigned after the shifted value.
C7_ShiftsFlagLast ==
    [][ Ticked =>
          /\ (IsForm(8, 6) /\ X # 15) => v_registers' = ShiftRightInOrder
          /\ (IsForm(8, 14) /\ X # 15) => v_registers' = ShiftLeftInOrder
          /\ (IsForm(8, 6) /\ X = 15) =>
                v_registers' = [v_registers EXCEPT ![15] = VX % 2]
          /\ (IsForm(8, 14) /\ X = 15) =>
                v_registers' = [v_registers EXCEPT ![15] = (VX \div 128) % 2]
      ]_vars

\* 8F06 has run on V15 = 255: V15 is 1, the bit shifted out, not 127 or 0
C7_Witness ==
    /\ last.tick /\ D1(last.op) = 8 /\ D2(last.op) = 15 /\ D4(last.op) = 6
    /\ ticks = 3 /\ ram[513] = 255 /\ ram[515] = 255
    /\ v_registers[15] = 1

----------------------------------------------------------------------------
(* C8 *)

\* the cells DXYN toggles according to the claim: one for each set bit of
\* the n sprite bytes at the index register
ToggledCells ==
    {((VX + rc[2]) % 64) + 64 * ((VY + rc[1]) % 32) :
        rc \in {p \in (0 .. (D4(NextWord) - 1)) \X (0 .. 7) :
                   Bit(ram[i_register + p[1]], 7 - p[2]) = 1}}

\* C8: DXYN with index + n <= 4096 toggles exactly the cells of the set
\* bits, wrapped modulo 64 and 32, leaves every other cell, and sets V15 to
\* 1 if one of the toggled cells was lit before, else to 0.
C8_DrawTogglesSprite ==
    [][ (TickStep /\ IsGroup(13) /\ i_register + D4(NextWord) <= 4096) =>
          LET toggled == ToggledCells
          IN  /\ panic' = "none"
              /\ \A c \in 0 .. 2047 :
                    display'[c] = IF c \in toggled THEN ~display[c]
                                  ELSE display[c]
              /\ v_registers'[15] =
                    IF \E c \in toggled : display[c] THEN 1 ELSE 0
              /\ \A r \in 0 .. 14 : v_registers'[r] = v_registers[r] ]_vars

\* glyph 0 was drawn at (60, 30) and again at (61, 30): the second draw
\* wrapped to column 0 and to rows 0..2, and hit lit cells
C8_Witness ==
    /\ last.tick /\ last.op = \hD015 /\ ticks = 6 /\ i_register = 0
    /\ v_registers[0] = 61 /\ v_registers[1] = 30 /\ v_registers[15] = 1
    /\ display[0 + 64 * 30] /\ display[60 + 64 * 2] /\ ~display[61 + 64 * 30]

----------------------------------------------------------------------------
(* C11 *)

\* C11: a tick leaves both timers as they were, except that a tick of FX15
\* leaves Vx in the delay timer and a tick of FX18 leaves Vx in the sound
\* timer; so ticks between two calls of tick_timers never count a timer
\* down.
C11_TicksLeaveTimers ==
    [][ TickStep =>
          /\ delay_timer' = IF IsKeyForm(15, 1, 5) /\ panic' = "none"
                            THEN VX ELSE delay_timer
          /\ sound_timer' = IF IsKeyForm(15, 1, 8) /\ panic' = "none"
                            THEN VX ELSE sound_timer ]_vars

\* 6002, F015, F018, F107 have run with no call of tick_timers: both timers
\* still hold 2 two ticks after the first was set, and FX07 has read 2
C11_Witness ==
    /\ last.tick /\ last.op = \hF107 /\ ticks = 4
    /\ delay_timer = 2 /\ sound_timer = 2 /\ v_registers[1] = 2

----------------------------------------------------------------------------
(* C12 *)

\* C12 as stated: two machines of the same build in the same state, each
\* ticking a recognized instruction, end in the same state, whatever bytes
\* random() hands to the one and to the other (it is enough to compare
\* every byte with the byte 0).
C12_TickDeterministic ==
    InTable(NextWord) =>
        \A rn \in 0 .. 255, overflow_checks \in BOOLEAN :
            tick(Hachi, rn, overflow_checks) = tick(Hachi, 0, overflow_checks)

----------------------------------------------------------------------------
(* C13 *)

\* C13: no tick, no tick_timers and no load changes a key; key_event(i, p)
\* with i in 0..15 leaves p in key i and changes no other key and no other
\* field.
C13_KeysFrame ==
    [][ /\ (\/ TickStep
            \/ TickTimers
            \/ \E data \in KeyPrograms : Load(data)) => keys' = keys
        /\ \A idx \in 0 .. 15, pressed \in BOOLEAN :
              Keypress(idx, pressed) =>
                  /\ keys'[idx] = pressed
                  /\ \A k \in 0 .. 15 : k # idx => keys'[k] = keys[k]
                  /\ UNCHANGED <<program_counter, ram, display, v_registers,
                                 i_register, stack_pointer, stack,
                                 delay_timer, sound_timer, panic>> ]_vars

\* keys 3 and 15 are held; the program has skipped on key 3, waited for a
\* key twice and read 3 both times, and the keys are still held
C13_Witness ==
    /\ last.tick /\ last.op = \hF20A /\ last.at = 520 /\ ticks = 5
    /\ v_registers[2] = 3
    /\ ~keys[0] /\ keys[3] /\ keys[15]

----------------------------------------------------------------------------
(* C20 *)

LowestPressed == CHOOSE k \in 0 .. 15 : keys[k] /\ \A j \in 0 .. (k - 1) : ~keys[j]

\* C20: a tick of FX0A with one key or several pressed, whenever and in
\* whatever order they were pressed, leaves the lowest pressed index in Vx
\* and the program counter past the instruction, and changes no key.
C20_WaitTakesLowestKey ==
    [][ (TickStep /\ WaitAtPC /\ ~NoKeyPressed) =>
          /\ panic' = "none"
          /\ v_registers' = [v_registers EXCEPT ![X] = LowestPressed]
          /\ program_counter' = program_counter + 2
          /\ keys' = keys ]_vars

\* keys 15, 3 and 0 were all held before the first tick of the waiting
\* program: that tick, the first to fetch the instruction, has read key 0
C20_Witness ==
    /\ last.tick /\ last.op = \hF10A /\ last.at = 512 /\ ticks = 1
    /\ keys[0] /\ keys[3] /\ keys[15]
    /\ v_registers[1] = 0 /\ program_counter = 514

----------------------------------------------------------------------------
(* C14 *)

\* C14: load of a program that fits leaves its bytes from cell 512 on and
\* changes no other cell and no other field; load of a program that does
\* not fit panics with no cell written.
C14_LoadFrame ==
    [][ \A data \in LoadPrograms :
          (loads' = loads + 1 /\ LoadUpTo(data, MaxReloads)) =>
              /\ LET end == 512 + Len(data)
                 IN  IF end <= 4096
                     THEN /\ panic' = "none"
                          /\ \A a \in 0 .. 4095 :
                                ram'[a] = IF a >= 512 /\ a < end
                                          THEN data[a - 512 + 1]
                                          ELSE ram[a]
                     ELSE /\ panic' # "none"
                          /\ ram' = ram
              /\ UNCHANGED <<program_counter, display, v_registers,
                             i_register, stack_pointer, stack, keys,
                             delay_timer, sound_timer>> ]_vars

\* the two-byte program was loaded over the ten-byte one after three ticks
\* of that one: its bytes are at 512 and 513, the third byte of the earlier
\* program is still at 514, and the registers and the timer are as the
\* ticks left them
C14_Witness ==
    /\ loads = 2 /\ ticks = 3 /\ panic = "none"
    /\ ram[512] = \h12 /\ ram[513] = 0 /\ ram[514] = \hF0 /\ ram[521] = 0
    /\ v_registers[0] = 5 /\ delay_timer = 5 /\ i_register = 5
    /\ program_counter = 518 /\ GlyphIntact

----------------------------------------------------------------------------
(* C15 *)

\* C15: the calls not yet returned from are as many as the stack pointer
\* says, and a tick of 00EE that returns puts the program counter 2 past
\* the address of the last of them and the stack pointer back to what that
\* call found.
C15_ReturnMatchesCall ==
    [][ /\ panic = "none" => Len(last.calls) = stack_pointer
        /\ (Ticked /\ NextWord = \h00EE) =>
              /\ last.calls # <<>>
              /\ program_counter' = last.calls[Len(last.calls)].at + 2
              /\ stack_pointer' = last.calls[Len(last.calls)].sp ]_vars

\* sixteen calls deep from an empty stack, then all sixteen returns: the
\* last return is to 514, 2 past the first call, with the stack empty again
C15_Witness ==
    /\ last.tick /\ last.op = \h00EE /\ last.at = 518 /\ ticks = 32
    /\ panic = "none" /\ program_counter = 514 /\ stack_pointer = 0
    /\ stack[15] = 574 /\ last.calls = <<>>

----------------------------------------------------------------------------
(* C16 *)

\* C16: while the machine runs the stack pointer is within 0..16; a call
\* with 16 addresses on the stack and a return with none end in a panic;
\* a return that returns has read its address from one of the 16 slots.
C16_StackPointerInRange ==
    [][ /\ panic = "none" => stack_pointer \in 0 .. 16
        /\ panic' = "none" => stack_pointer' \in 0 .. 16
        /\ (TickStep /\ IsGroup(2) /\ stack_pointer = 16) => panic' # "none"
        /\ (TickStep /\ NextWord = \h00EE /\ stack_pointer = 0)
              => panic' # "none"
        /\ (Ticked /\ NextWord = \h00EE) =>
              /\ stack_pointer - 1 \in 0 .. 15
              /\ program_counter' = stack[stack_pointer - 1] ]_vars

\* the routine that calls itself has made its seventeenth call: the stack
\* was full, the call ended in a panic with the pointer at 16
C16_Witness ==
    /\ last.tick /\ last.op = \h2200 /\ ticks = 17
    /\ panic = "index out of bounds" /\ stack_pointer = 16
    /\ \A sl \in 0 .. 15 : stack[sl] = 514

----------------------------------------------------------------------------
(* C17 *)

\* C17: FX55 with I + x <= 4095 leaves Vk in cell I + k for k = 0..x and
\* changes no other cell, no register and not I; FX65 leaves cell I + k in
\* Vk for k = 0..x and changes no other register, no cell and not I; so
\* the FX65 of a store program, run after its FX55 and an addition, leaves
\* in V0..Vx what the program had set before the FX55 (its bytes 513 and
\* 515 in V0 and V1, 0 in the others).
C17_StoreLoadRegisters ==
    [][ (TickStep /\ i_register + X <= 4095) =>
          /\ IsKeyForm(15, 5, 5) =>
                /\ panic' = "none"
                /\ \A a \in 0 .. 4095 :
                      ram'[a] = IF a >= i_register /\ a <= i_register + X
                                THEN v_registers[a - i_register]
                                ELSE ram[a]
                /\ UNCHANGED <<v_registers, i_register>>
          /\ IsKeyForm(15, 6, 5) =>
                /\ panic' = "none"
                /\ \A k \in 0 .. 15 :
                      v_registers'[k] = IF k <= X THEN ram[i_register + k]
                                        ELSE v_registers[k]
                /\ UNCHANGED <<ram, i_register>>
          /\ (IsKeyForm(15, 6, 5) /\ program_counter = 522) =>
                \A k \in 0 .. X :
                    v_registers'[k] = IF k = 0 THEN ram[513]
                                      ELSE IF k = 1 THEN ram[515] ELSE 0 ]_vars

\* V0 = 255 and V1 = 9 were stored in the last two cells of memory, the
\* addition made V0 = 8 and V15 = 1, and F165 has brought V0 and V1 back
\* and left V15
C17_Witness ==
    /\ last.tick /\ last.op = \hF165 /\ ticks = 6 /\ panic = "none"
    /\ ram[521] = \h14
    /\ i_register = 4094 /\ ram[4094] = 255 /\ ram[4095] = 9
    /\ v_registers[0] = 255 /\ v_registers[1] = 9 /\ v_registers[15] = 1

----------------------------------------------------------------------------
(* C18 *)

\* C18: FX33 with I + 2 <= 4095 leaves the hundreds, tens and ones of Vx
\* in cells I, I + 1 and I + 2, each a digit 0..9, together Vx again, and
\* changes no other cell, no register and not I; 234 gives 2, 3, 4.
C18_DecimalDigits ==
    [][ (TickStep /\ IsKeyForm(15, 3, 3) /\ i_register + 2 <= 4095) =>
          /\ panic' = "none"
          /\ ram'[i_register] = VX \div 100
          /\ ram'[i_register + 1] = (VX \div 10) % 10
          /\ ram'[i_register + 2] = VX % 10
          /\ \A off \in 0 .. 2 : ram'[i_register + off] \in 0 .. 9
          /\ 100 * ram'[i_register] + 10 * ram'[i_register + 1]
                + ram'[i_register + 2] = VX
          /\ \A a \in 0 .. 4095 :
                (a < i_register \/ a > i_register + 2) => ram'[a] = ram[a]
          /\ UNCHANGED <<v_registers, i_register>>
          /\ VX = 234 => /\ ram'[i_register] = 2
                         /\ ram'[i_register + 1] = 3
                         /\ ram'[i_register + 2] = 4 ]_vars

\* V15 = 234 was decomposed into the last three cells of memory
C18_Witness ==
    /\ last.tick /\ last.op = \hFF33 /\ ticks = 3 /\ panic = "none"
    /\ v_registers[15] = 234 /\ i_register = 4093
    /\ ram[4093] = 2 /\ ram[4094] = 3 /\ ram[4095] = 4

----------------------------------------------------------------------------
(* C19 *)

\* the set bits of the n sprite bytes at the index register
SpriteBits ==
    {p \in (0 .. (D4(NextWord) - 1)) \X (0 .. 7) :
        Bit(ram[i_register + p[1]], 7 - p[2]) = 1}

\* the tick before this one executed the same word just before it
SameWordAgain ==
    last.tick /\ last.op = NextWord /\ last.at + 2 = program_counter

\* C19 as stated: a draw changes as many cells as the sprite has set bits
\* (none is toggled twice); the second of two draws of the same DXYN in a
\* row, x and y not 15, leaves the display as the first found it and, when
\* the sprite has a set bit, 1 in V15.
C19_SecondDrawAlwaysCollides ==
    [][ (Ticked /\ IsGroup(13)) =>
          /\ Cardinality({c \in 0 .. 2047 : display'[c] # display[c]})
                = Cardinality(SpriteBits)
          /\ (SameWordAgain /\ X # 15 /\ Y # 15) =>
                /\ display' = last.shown
                /\ SpriteBits # {} => v_registers'[15] = 1 ]_vars

\* C19, amended: as above, but the second draw leaves 1 in V15 exactly when
\* a cell of the sprite was dark before the first draw (the first draw lit
\* it, the second puts it out), and 0 when the first draw found every cell
\* of the sprite lit.
C19_DrawTwiceRestores ==
    [][ (Ticked /\ IsGroup(13)) =>
          /\ Cardinality({c \in 0 .. 2047 : display'[c] # display[c]})
                = Cardinality(SpriteBits)
          /\ (SameWordAgain /\ X # 15 /\ Y # 15) =>
                /\ display' = last.shown
                /\ v_registers'[15] =
                      IF \E c \in ToggledCells : ~last.shown[c] THEN 1 ELSE 0
      ]_vars

\* glyph 0 is on the display at (30, 0) as background; it was drawn at
\* (0, 30), wrapping to rows 0..2, and drawn there again: the background
\* is lit, the sprite is gone, and V15 is 1
C19_Witness ==
    /\ last.tick /\ last.op = \hD015 /\ last.at = 522 /\ ticks = 6
    /\ panic = "none" /\ i_register = 0
    /\ v_registers[0] = 0 /\ v_registers[1] = 30 /\ v_registers[15] = 1
    /\ display[30 + 64 * 0] /\ ~display[0 + 64 * 30] /\ ~display[0 + 64 * 2]
    /\ last.shown[0 + 64 * 30] /\ last.shown[0 + 64 * 2]

=============================================================================
